---------------------------- MODULE Spec2Model ----------------------------
(***************************************************************************)
(* A model of the lexicon-based aspect sentiment analyzer                  *)
(* (src/src/lexicon_absa.py, src/src/utils.py).                            *)
(*                                                                         *)
(* LexiconABSA.analyze is modelled step by step: the parser's output (the  *)
(* parsed document) and the lexicon scorer's compound score are inputs of  *)
(* the program and are drawn from bounded sets.  Scores are real numbers   *)
(* in the code (floats); here they are exact rationals [n, d] with d > 0,  *)
(* so 1.2 is 6/5, 0.8 is 4/5, 0.3 is 3/10 and 0.1 is 1/10.                 *)
(*                                                                         *)
(* The module also models the normalization loop of LexiconABSA.analyze    *)
(* on texts (SpecNorm), concurrent calls of analyze on one analyzer        *)
(* (SpecCalls), OllamaABSA.analyze (src/src/llm_absa.py, SpecLlm) and      *)
(* TransformerABSA.analyze (src/src/transformer_absa.py, SpecTrf), with    *)
(* analyze_batch beside it in SpecTrfBoth.  SpecNeg and SpecSoft run       *)
(* LexiconABSA.analyze on the documents that exercise the negation         *)
(* detector and the softeners.  Each specification moves its own           *)
(* variables; the others stay idle.                                        *)
(***************************************************************************)
EXTENDS Integers, Sequences, FiniteSets

VARIABLES
    self,      \* the analyzer: the vocabularies and the emoji table built by __init__
    pc,        \* position of the call: start, extract, match, score, aggregate, done, raised
    doc,       \* the parsed document: a sequence of tokens
    aspects,   \* the aspect candidates kept by step 1 (noun chunks)
    pairs,     \* the (aspect, opinion) pairs of step 2
    k,         \* index of the pair step 3 scores next
    results,   \* the AspectSentiment records emitted by step 3
    scores,    \* history: the final clamped score vs of each emitted record
    j,         \* index of the record the aggregator's loop reads next
    merged,    \* the aggregator's dict, in insertion order: a sequence of [key, rec]
    final,     \* the list analyze returns
    vader,     \* self.vader: the compound scores (in tenths) the scorer may return
    text,      \* the text being normalized: a sequence of code points
    item,      \* index of the emoji_map item the normalization loop takes next
    calls,     \* concurrent calls of analyze on one analyzer: the locals of each call
    lists,     \* the results lists of the concurrent calls, by the list's identity
    llm,       \* a call of OllamaABSA.analyze: its locals and its position
    trf        \* a call of TransformerABSA.analyze: its arguments, locals and position

\* the variables of LexiconABSA.analyze from the parse on
lexVars == <<pc, doc, aspects, pairs, k, results, scores, j, merged, final, vader>>

\* the variables of the normalization loop of LexiconABSA.analyze
normVars == <<text, item>>

\* what the steps of LexiconABSA.analyze after the parse leave alone
\* the variables of the concurrent calls of LexiconABSA.analyze
callVars == <<calls, lists>>

otherVars == <<self, normVars, callVars, llm, trf>>

vars == <<lexVars, otherVars>>

\* no normalization is in progress
NormIdle == text = << >> /\ item = 1

\* the parts of the model that take no step with LexiconABSA.analyze
\* no concurrent calls are modelled
CallsIdle == calls = << >> /\ lists = << >>

\* no call of OllamaABSA.analyze is modelled
LlmIdle == llm = << >>

\* no call of TransformerABSA.analyze is modelled
TrfIdle == trf = << >>

OthersIdle == NormIdle /\ CallsIdle /\ LlmIdle /\ TrfIdle

\* no call of LexiconABSA.analyze is past its parse
LexIdle ==
    /\ pc = "idle"
    /\ doc = << >>
    /\ aspects = << >>
    /\ pairs = << >>
    /\ k = 1
    /\ results = << >>
    /\ scores = << >>
    /\ j = 1
    /\ merged = << >>
    /\ final = << >>

-----------------------------------------------------------------------------
(* Bounds of the model *)

MaxTokens == 3

MaxRecords == 3

MaxModifiers == 4

MaxChars == 4

MaxCalls == 2

MaxRetries == 2

MaxItems == 2

MaxWords == 2

MaxAspects == 2

MaxNegWords == 2

MaxSoftWords == 2

-----------------------------------------------------------------------------
(* Rational arithmetic: [n |-> numerator, d |-> denominator], d > 0, in    *)
(* lowest terms                                                            *)

RECURSIVE Gcd(_, _)
Gcd(a, b) == IF b = 0 THEN a ELSE Gcd(b, a % b)

Rat(n, d) ==
    LET g == Gcd(IF n < 0 THEN -n ELSE n, d)
    IN  [n |-> n \div g, d |-> d \div g]

RLess(a, b) == a.n * b.d < b.n * a.d

RLeq(a, b) == a.n * b.d <= b.n * a.d

RNeg(a) == Rat(-a.n, a.d)

RAbs(a) == Rat(IF a.n < 0 THEN -a.n ELSE a.n, a.d)

RMul(a, b) == Rat(a.n * b.n, a.d * b.d)

RAdd(a, b) == Rat(a.n * b.d + b.n * a.d, a.d * b.d)

RMin(a, b) == IF RLess(b, a) THEN b ELSE a

RMax(a, b) == IF RLess(a, b) THEN b ELSE a

-----------------------------------------------------------------------------
(* The analyzer's vocabularies (LexiconABSA.__init__) *)

\* the attributes __init__ gives the analyzer.  emoji_map is the dict in the
\* order of its items; a glyph is its sequence of code points, written by
\* number outside ASCII (the heart glyph is U+2764 and the variation
\* selector U+FE0F)
Analyzer ==
    [ negations |-> {"not", "no", "never", "n't"},
      intensifiers |-> {"very", "extremely", "really", "so", "super", "highly", "too"},
      softeners |-> {"slightly", "somewhat", "barely", "a bit", "kind of", "rather"},
      emoji_map |->
        << [emo |-> <<"U+1F498">>,          word |-> "love"],
           [emo |-> <<"U+2764", "U+FE0F">>, word |-> "love"],
           [emo |-> <<"U+1F495">>,          word |-> "love"],
           [emo |-> <<"U+1F60D">>,          word |-> "love"],
           [emo |-> <<"U+1F618">>,          word |-> "love"],
           [emo |-> <<"U+1F621">>,          word |-> "angry"],
           [emo |-> <<"U+1F92C">>,          word |-> "furious"],
           [emo |-> <<"U+1F622">>,          word |-> "sad"],
           [emo |-> <<"U+1F62D">>,          word |-> "crying"],
           [emo |-> <<"U+1F602">>,          word |-> "laughing"],
           [emo |-> <<"U+1F923">>,          word |-> "laughing"],
           [emo |-> <<"U+1F614">>,          word |-> "sad"],
           [emo |-> <<"U+1F642">>,          word |-> "smile"],
           [emo |-> <<"U+1F60A">>,          word |-> "smile"],
           [emo |-> <<":", ")">>,           word |-> "smile"],
           [emo |-> <<":", "(">>,           word |-> "sad"],
           [emo |-> <<":", "/">>,           word |-> "disappointed"],
           [emo |-> <<"U+1F612">>,          word |-> "annoyed"],
           [emo |-> <<"U+1F629">>,          word |-> "tired"],
           [emo |-> <<"U+1F603">>,          word |-> "happy"],
           [emo |-> <<"U+1F606">>,          word |-> "happy"] >> ]

\* self.negations, self.intensifiers, self.softeners, self.emoji_map
negations == self.negations

intensifiers == self.intensifiers

softeners == self.softeners

emoji_map == self.emoji_map

\* self.emoji_map.values(): the words the emoji glyphs are rewritten to
emoji_words == { emoji_map[i].word : i \in 1..Len(emoji_map) }

\* the characters of a word of emoji_map
Chars(word) ==
    CASE word = "love" -> <<"l", "o", "v", "e">>
      [] word = "angry" -> <<"a", "n", "g", "r", "y">>
      [] word = "furious" -> <<"f", "u", "r", "i", "o", "u", "s">>
      [] word = "sad" -> <<"s", "a", "d">>
      [] word = "crying" -> <<"c", "r", "y", "i", "n", "g">>
      [] word = "laughing" -> <<"l", "a", "u", "g", "h", "i", "n", "g">>
      [] word = "smile" -> <<"s", "m", "i", "l", "e">>
      [] word = "disappointed" -> <<"d", "i", "s", "a", "p", "p", "o", "i", "n", "t", "e", "d">>
      [] word = "annoyed" -> <<"a", "n", "n", "o", "y", "e", "d">>
      [] word = "tired" -> <<"t", "i", "r", "e", "d">>
      [] word = "happy" -> <<"h", "a", "p", "p", "y">>

\* str.lower() on the texts of the model's vocabulary
Lower(s) == CASE s = "Pizza" -> "pizza"
              [] s = "Service" -> "service"
              [] s = "Love" -> "love"
              [] s = "Very" -> "very"
              [] s = "Not" -> "not"
              [] s = "Positive" -> "positive"
              [] s = "Negative" -> "negative"
              [] OTHER -> s

-----------------------------------------------------------------------------
(* The parsed document.  A token is [text, pos, dep, head]; its index in   *)
(* the document (token.i) is its position in the sequence, from 1.  A      *)
(* sentence root is its own head, as in spaCy.                             *)

\* the taggings the parser may give a word: (text, pos_, dep_ when not a root)
TokenKinds ==
    { [text |-> "pizza",       pos |-> "NOUN",  dep |-> "nsubj"],
      [text |-> "love",        pos |-> "NOUN",  dep |-> "nsubj"],
      [text |-> "good",        pos |-> "ADJ",   dep |-> "amod"],
      [text |-> "good",        pos |-> "ADJ",   dep |-> "acomp"],
      [text |-> "was",         pos |-> "AUX",   dep |-> "conj"],
      [text |-> "disappoints", pos |-> "VERB",  dep |-> "conj"],
      [text |-> "very",        pos |-> "ADV",   dep |-> "advmod"],
      [text |-> "not",         pos |-> "PART",  dep |-> "neg"],
      [text |-> " ",           pos |-> "SPACE", dep |-> "dep"] }

RECURSIVE Up(_, _, _)
\* the token reached from i by following head s times
Up(h, i, s) == IF s = 0 THEN i ELSE Up(h, h[i], s - 1)

\* the head references form a forest: every token reaches a root
IsForest(h, n) == \A i \in 1..n : h[Up(h, i, n)] = Up(h, i, n)

MkDoc(kinds, h) ==
    [i \in DOMAIN kinds |->
        [text |-> kinds[i].text,
         pos  |-> kinds[i].pos,
         dep  |-> IF h[i] = i THEN "ROOT" ELSE kinds[i].dep,
         head |-> h[i]]]

\* the parse is projective: the tokens between a token and its head descend
\* from that head
IsProjective(h, n) ==
    \A c \in 1..n : \A m \in 1..n :
        ((c < m /\ m < h[c]) \/ (h[c] < m /\ m < c))
            => \E s \in 1..n : Up(h, m, s) = h[c]

\* the head assignments the parser may give n tokens
Heads(n) == { h \in [1..n -> 1..n] : IsForest(h, n) /\ IsProjective(h, n) }

\* the indices 1..n as a sequence (document order)
Indices(n) == [i \in 1..n |-> i]

\* token.children: the tokens whose head is t, in document order
Children(d, t) ==
    SelectSeq(Indices(Len(d)), LAMBDA c : c # t /\ d[c].head = t)

\* the tokens of t's subtree (t and its descendants)
Subtree(d, t) == { c \in 1..Len(d) :
                     \E s \in 0..Len(d) : Up([i \in 1..Len(d) |-> d[i].head], c, s) = t }

Min(S) == CHOOSE x \in S : \A y \in S : x <= y

\* doc.noun_chunks: for each noun, the span from its subtree's left edge to it
NounChunks(d) ==
    SelectSeq([t \in 1..Len(d) |-> [start |-> Min(Subtree(d, t)), end |-> t]],
              LAMBDA c : d[c.end].pos \in {"NOUN", "PROPN"})

-----------------------------------------------------------------------------
(* STEP 1: aspect extraction via noun chunks *)

\* the chunk holds a token whose lowercase text is a value of emoji_map
HasEmojiWord(d, c) == \E w \in c.start..c.end : Lower(d[w].text) \in emoji_words

ExtractAspects(d) == SelectSeq(NounChunks(d), LAMBDA c : ~HasEmojiWord(d, c))

-----------------------------------------------------------------------------
(* STEP 2: the pair matcher.  A pair is [aspect, opinion], two token       *)
(* indices.                                                                *)

Pair(a, o) == [aspect |-> a, opinion |-> o]

\* mutant of AmodRule: the condition negated
AmodRule_Negated(d, t) ==
    ~(d[t].dep = "amod" /\ d[d[t].head].pos \in {"NOUN", "PROPN"})

\* adjectival modifier: good food
AmodRule(d, t) == d[t].dep = "amod" /\ d[d[t].head].pos \in {"NOUN", "PROPN"}

\* mutant of AcompRule: the test of the head's part-of-speech left out
AcompRule_AnyHead(d, t) == d[t].dep = "acomp"

\* adjectival complement: food is good
AcompRule(d, t) == d[t].dep = "acomp" /\ d[d[t].head].pos \in {"VERB", "AUX"}

\* verb opinions: camera disappoints
VerbRule(d, t) == d[t].pos = "VERB"

IsSubject(d, c) == d[c].dep \in {"nsubj", "nsubjpass"}

\* for subj in token.head.children: if subj is a subject, the pair (subj, token)
AcompPairs(d, t) ==
    LET subj == SelectSeq(Children(d, d[t].head), LAMBDA c : IsSubject(d, c))
    IN  [x \in 1..Len(subj) |-> Pair(subj[x], t)]

\* for subj in token.children: if subj is a subject and a noun, the pair (subj, token)
VerbPairs(d, t) ==
    LET subj == SelectSeq(Children(d, t),
                          LAMBDA c : IsSubject(d, c) /\ d[c].pos \in {"NOUN", "PROPN"})
    IN  [x \in 1..Len(subj) |-> Pair(subj[x], t)]

\* the pairs one iteration of the token loop appends (if / elif / elif)
PairsOfToken(d, t) ==
    IF AmodRule(d, t) THEN << Pair(d[t].head, t) >>
    ELSE IF AcompRule(d, t) THEN AcompPairs(d, t)
    ELSE IF VerbRule(d, t) THEN VerbPairs(d, t)
    ELSE << >>

RECURSIVE PairsUpTo(_, _)
\* the pairs list after the token loop has read tokens 1..t
PairsUpTo(d, t) == IF t = 0 THEN << >> ELSE PairsUpTo(d, t - 1) \o PairsOfToken(d, t)

MatchPairsOf(d) == PairsUpTo(d, Len(d))

-----------------------------------------------------------------------------
(* STEP 3: sentiment of one pair *)

\* the window of the modifier scan: abs(t.i - opinion.i) <= 3
Window == 3

Dist(a, b) == IF a < b THEN b - a ELSE a - b

\* mutant of Modifiers: the window taken exclusive
Modifiers_Strict(d, o) ==
    SelectSeq(Indices(Len(d)), LAMBDA t : d[t].pos = "ADV" /\ Dist(t, o) < Window)

\* the ADV tokens near the opinion, in document order
Modifiers(d, o) ==
    SelectSeq(Indices(Len(d)), LAMBDA t : d[t].pos = "ADV" /\ Dist(t, o) <= Window)

\* the lowercase texts of a list of tokens
LowerTexts(d, ts) == [x \in 1..Len(ts) |-> Lower(d[ts[x]].text)]

RECURSIVE ApplyModifiers_Swapped(_, _)
\* mutant of ApplyModifiers: the two factors exchanged
ApplyModifiers_Swapped(vs, advs) ==
    IF advs = << >> THEN vs
    ELSE LET adv == Head(advs)
             nxt == IF adv \in intensifiers THEN RMul(vs, Rat(4, 5))
                    ELSE IF adv \in softeners THEN RMul(vs, Rat(6, 5))
                    ELSE vs
         IN  ApplyModifiers_Swapped(nxt, Tail(advs))

RECURSIVE ApplyModifiers(_, _)
\* the loop over the modifiers: an intensifier multiplies vs by 1.2, a softener by 0.8
ApplyModifiers(vs, advs) ==
    IF advs = << >> THEN vs
    ELSE LET adv == Head(advs)
             nxt == IF adv \in intensifiers THEN RMul(vs, Rat(6, 5))
                    ELSE IF adv \in softeners THEN RMul(vs, Rat(4, 5))
                    ELSE vs
         IN  ApplyModifiers(nxt, Tail(advs))

\* mutant of has_negation: only the token's own children are looked at
has_negation_ChildOnly(d, t) ==
    \E c \in 1..Len(d) : c # t /\ d[c].head = t /\ d[c].dep = "neg"

\* _has_negation(token)
has_negation(d, t) ==
    \/ \E c \in 1..Len(d) : c # t /\ d[c].head = t /\ d[c].dep = "neg"
    \/ \E c \in 1..Len(d) : c # d[t].head /\ d[c].head = d[t].head /\ d[c].dep = "neg"
    \/ t > 1 /\ Lower(d[t - 1].text) \in negations

\* mutant of ApplyNegation: absolute-value substitution instead of a sign flip
ApplyNegation_Abs(vs, neg) == IF neg THEN RNeg(RAbs(vs)) ELSE vs

\* vs = -vs when the opinion is negated
ApplyNegation(vs, neg) == IF neg THEN RNeg(vs) ELSE vs

\* vs = max(min(vs, 1.0), -1.0)
Clamp(vs) == RMax(RMin(vs, Rat(1, 1)), Rat(-1, 1))

\* mutant of Classify: the thresholds 0.05 and -0.05 of the compound score's
\* usual reading
Classify_Compound005(vs) ==
    IF RLess(Rat(1, 20), vs) THEN "positive"
    ELSE IF RLess(vs, Rat(-1, 20)) THEN "negative"
    ELSE "neutral"

\* mutant of Classify: the thresholds taken inclusive
Classify_Inclusive(vs) ==
    IF RLeq(Rat(3, 10), vs) THEN "positive"
    ELSE IF RLeq(vs, Rat(-3, 10)) THEN "negative"
    ELSE "neutral"

\* vs > 0.3: positive; vs < -0.3: negative; else neutral
Classify(vs) ==
    IF RLess(Rat(3, 10), vs) THEN "positive"
    ELSE IF RLess(vs, Rat(-3, 10)) THEN "negative"
    ELSE "neutral"

\* mutant of Confidence: the cap at 1.0 left out
Confidence_NoCap(vs, nmods) == RAdd(RAbs(vs), Rat(nmods, 10))

\* confidence = min(1.0, abs(vs) + 0.1 * len(modifiers))
Confidence(vs, nmods) == RMin(Rat(1, 1), RAdd(RAbs(vs), Rat(nmods, 10)))

\* mutant of FinalScore: the clamp applied to the compound score, before the
\* modifiers and the negation
FinalScore_ClampFirst(c, advs, neg) ==
    ApplyNegation(ApplyModifiers(Clamp(Rat(c, 10)), advs), neg)

\* the final clamped score of a pair: compound c tenths, modifiers, negation
FinalScore(c, advs, neg) == Clamp(ApplyNegation(ApplyModifiers(Rat(c, 10), advs), neg))

\* the label and confidence computed for a pair
Score(c, advs, neg) ==
    LET vs == FinalScore(c, advs, neg)
    IN  [vs |-> vs, sentiment |-> Classify(vs), confidence |-> Confidence(vs, Len(advs))]

\* the AspectSentiment built for a pair; text_span is the aspect token's position
AspectSentiment(d, p, c) ==
    LET sc == Score(c, LowerTexts(d, Modifiers(d, p.opinion)), has_negation(d, p.opinion))
    IN  [aspect |-> d[p.aspect].text,
         sentiment |-> sc.sentiment,
         confidence |-> sc.confidence,
         text_span |-> p.aspect,
         vader_breakdown |-> c]

-----------------------------------------------------------------------------
(* STEP 4: the aggregator.  merged is a dict in insertion order: a         *)
(* sequence of entries [key, rec]; assigning to a key that is present      *)
(* keeps the key's position.                                               *)

HasKey(m, key) == \E x \in 1..Len(m) : m[x].key = key

Lookup(m, key) == m[CHOOSE x \in 1..Len(m) : m[x].key = key].rec

\* mutant of Assign: a replaced key moves to the end
Assign_MoveToEnd(m, key, r) ==
    Append(SelectSeq(m, LAMBDA e : e.key # key), [key |-> key, rec |-> r])

\* mutant of Values: each record is rebuilt with its key as the aspect text
Values_KeyAsAspect(m) ==
    [x \in 1..Len(m) |-> [m[x].rec EXCEPT !.aspect = m[x].key]]

\* merged[key] = r
Assign(m, key, r) ==
    IF HasKey(m, key)
    THEN [x \in 1..Len(m) |-> IF m[x].key = key THEN [key |-> key, rec |-> r] ELSE m[x]]
    ELSE Append(m, [key |-> key, rec |-> r])

\* mutant of KeyOf: the aspect text taken as it is
KeyOf_NoLower(r) == r.aspect

\* key = r.aspect.lower()
KeyOf(r) == Lower(r.aspect)

\* mutant of Beats: an equal confidence replaces too
Beats_OrEqual(r, old) == RLeq(old.confidence, r.confidence)

\* r.confidence > merged[key].confidence
Beats(r, old) == RLess(old.confidence, r.confidence)

\* mutant of MergeOne: every record replaces the entry of its key
MergeOne_Always(m, r) == Assign(m, KeyOf(r), r)

\* one iteration of the aggregator's loop
MergeOne(m, r) ==
    IF ~HasKey(m, KeyOf(r)) \/ Beats(r, Lookup(m, KeyOf(r)))
    THEN Assign(m, KeyOf(r), r)
    ELSE m

\* list(merged.values())
Values(m) == [x \in 1..Len(m) |-> m[x].rec]

(* The two copies of the aggregator as functions of the list rs *)

RECURSIVE LexiconLoop(_, _, _)
\* LexiconABSA._aggregate_results: for r in results, from position i on
LexiconLoop(m, rs, i) ==
    IF i > Len(rs) THEN m ELSE LexiconLoop(MergeOne(m, rs[i]), rs, i + 1)

LexiconABSA_aggregate_results(rs) == Values(LexiconLoop(<< >>, rs, 1))

RECURSIVE UtilsLoop(_, _, _)
\* utils.aggregate_results: for r in results, from position i on
UtilsLoop(m, rs, i) ==
    IF i > Len(rs)
    THEN m
    ELSE LET r == rs[i]
             key == Lower(r.aspect)
         IN  UtilsLoop(IF ~HasKey(m, key) \/ RLess(Lookup(m, key).confidence, r.confidence)
                       THEN Assign(m, key, r)
                       ELSE m,
                       rs, i + 1)

aggregate_results(rs) == Values(UtilsLoop(<< >>, rs, 1))

-----------------------------------------------------------------------------
(* LexiconABSA.analyze, step by step *)

Init ==
    /\ self = Analyzer
    /\ pc = "start"
    /\ doc = << >>
    /\ aspects = << >>
    /\ pairs = << >>
    /\ k = 1
    /\ results = << >>
    /\ scores = << >>
    /\ j = 1
    /\ merged = << >>
    /\ final = << >>
    /\ vader = {-5, 0, 5}
    /\ OthersIdle

\* doc = self.nlp(text): the parser returns some document
Parse ==
    /\ pc = "start"
    /\ \E n \in 0..MaxTokens : \E h \in Heads(n) : \E kinds \in [1..n -> TokenKinds] :
         doc' = MkDoc(kinds, h)
    /\ pc' = "extract"
    /\ UNCHANGED <<aspects, pairs, k, results, scores, j, merged, final, vader>>
    /\ UNCHANGED otherVars

\* STEP 1: keep the noun chunks that hold no emoji word
Extract ==
    /\ pc = "extract"
    /\ aspects' = ExtractAspects(doc)
    /\ pc' = "match"
    /\ UNCHANGED <<doc, pairs, k, results, scores, j, merged, final, vader>>
    /\ UNCHANGED otherVars

\* STEP 2: the token loop of the pair matcher
MatchPairs ==
    /\ pc = "match"
    /\ pairs' = MatchPairsOf(doc)
    /\ pc' = IF pairs' = << >> THEN "aggregate" ELSE "score"
    /\ UNCHANGED <<doc, aspects, k, results, scores, j, merged, final, vader>>
    /\ UNCHANGED otherVars

\* STEP 3, one iteration: the scorer returns compound c for pair k
ScorePair ==
    /\ pc = "score"
    /\ k <= Len(pairs)
    /\ \E c \in vader :
         LET r == AspectSentiment(doc, pairs[k], c)
         IN  /\ results' = Append(results, r)
             /\ scores' = Append(scores,
                    FinalScore(c, LowerTexts(doc, Modifiers(doc, pairs[k].opinion)),
                               has_negation(doc, pairs[k].opinion)))
    /\ k' = k + 1
    /\ pc' = IF k = Len(pairs) THEN "aggregate" ELSE "score"
    /\ UNCHANGED <<doc, aspects, pairs, j, merged, final, vader>>
    /\ UNCHANGED otherVars

\* STEP 3, one iteration: the scorer raises for pair k; nothing in analyze
\* catches it, so the exception leaves the call
ScorerRaises ==
    /\ pc = "score"
    /\ k <= Len(pairs)
    /\ pc' = "raised"
    /\ UNCHANGED <<doc, aspects, pairs, k, results, scores, j, merged, final, vader>>
    /\ UNCHANGED otherVars

\* STEP 4, one iteration of the aggregator's loop
AggregateStep ==
    /\ pc = "aggregate"
    /\ j <= Len(results)
    /\ merged' = MergeOne(merged, results[j])
    /\ j' = j + 1
    /\ UNCHANGED <<pc, doc, aspects, pairs, k, results, scores, final, vader>>
    /\ UNCHANGED otherVars

\* return list(merged.values())
Return ==
    /\ pc = "aggregate"
    /\ j > Len(results)
    /\ final' = Values(merged)
    /\ pc' = "done"
    /\ UNCHANGED <<doc, aspects, pairs, k, results, scores, j, merged, vader>>
    /\ UNCHANGED otherVars

Next == Parse \/ Extract \/ MatchPairs \/ ScorePair \/ ScorerRaises
        \/ AggregateStep \/ Return

Spec == Init /\ [][Next]_vars

-----------------------------------------------------------------------------
(* The aggregator alone (LexiconABSA._aggregate_results and                *)
(* utils.aggregate_results), on any list of records                        *)

AspectTexts == {"pizza", "Pizza", "service"}

Confidences == {Rat(4, 10), Rat(9, 10)}

Records ==
    [aspect : AspectTexts, sentiment : {"positive", "negative"},
     confidence : Confidences, text_span : {1}, vader_breakdown : {0}]

RecordLists == UNION { [1..n -> Records] : n \in 0..MaxRecords }

InitAgg ==
    /\ self = Analyzer
    /\ pc = "aggregate"
    /\ doc = << >>
    /\ aspects = << >>
    /\ pairs = << >>
    /\ k = 1
    /\ results \in RecordLists
    /\ scores = << >>
    /\ j = 1
    /\ merged = << >>
    /\ final = << >>
    /\ vader = {}
    /\ OthersIdle

NextAgg == AggregateStep \/ Return

SpecAgg == InitAgg /\ [][NextAgg]_vars

-----------------------------------------------------------------------------
(* analyze on the documents of one scored pair: an opinion that modifies   *)
(* its aspect ("good pizza"), preceded by adverbs and negation words that  *)
(* depend on the opinion, with every compound score of the grid            *)

ModifierKinds ==
    { [text |-> "very",     pos |-> "ADV",  dep |-> "advmod"],
      [text |-> "somewhat", pos |-> "ADV",  dep |-> "advmod"],
      [text |-> "quite",    pos |-> "ADV",  dep |-> "advmod"],
      [text |-> "not",      pos |-> "PART", dep |-> "neg"] }

\* mods, then the opinion (head: the aspect), then the aspect (a root)
ScoreDoc(mods) ==
    LET n == Len(mods)
        kinds == mods \o << [text |-> "good",  pos |-> "ADJ",  dep |-> "amod"],
                            [text |-> "pizza", pos |-> "NOUN", dep |-> "nsubj"] >>
    IN  MkDoc(kinds, [i \in 1..(n + 2) |-> IF i <= n THEN n + 1 ELSE n + 2])

InitScore ==
    /\ self = Analyzer
    /\ pc = "extract"
    /\ \E n \in 0..MaxModifiers : \E mods \in [1..n -> ModifierKinds] :
         doc = ScoreDoc(mods)
    /\ aspects = << >>
    /\ pairs = << >>
    /\ k = 1
    /\ results = << >>
    /\ scores = << >>
    /\ j = 1
    /\ merged = << >>
    /\ final = << >>
    /\ vader = -10..10
    /\ OthersIdle

NextScore == Extract \/ MatchPairs \/ ScorePair \/ ScorerRaises
             \/ AggregateStep \/ Return

SpecScore == InitScore /\ [][NextScore]_vars

-----------------------------------------------------------------------------
(* analyze on the documents that exercise the pair matcher: subjects that  *)
(* are nouns, proper nouns and pronouns; opinions that are adjectives and  *)
(* verbs, as modifiers (amod), complements (acomp) and predicates          *)

PairKinds ==
    { [text |-> "pizza",         pos |-> "NOUN",  dep |-> "nsubj"],
      [text |-> "Pizza",         pos |-> "PROPN", dep |-> "nsubjpass"],
      [text |-> "it",            pos |-> "PRON",  dep |-> "nsubj"],
      [text |-> "good",          pos |-> "ADJ",   dep |-> "amod"],
      [text |-> "good",          pos |-> "ADJ",   dep |-> "acomp"],
      [text |-> "disappointing", pos |-> "VERB",  dep |-> "amod"],
      [text |-> "overcooked",    pos |-> "VERB",  dep |-> "acomp"],
      [text |-> "was",           pos |-> "AUX",   dep |-> "conj"],
      [text |-> "disappoints",   pos |-> "VERB",  dep |-> "conj"] }

InitPair ==
    /\ self = Analyzer
    /\ pc = "extract"
    /\ \E n \in 0..MaxTokens : \E h \in Heads(n) : \E kinds \in [1..n -> PairKinds] :
         doc = MkDoc(kinds, h)
    /\ aspects = << >>
    /\ pairs = << >>
    /\ k = 1
    /\ results = << >>
    /\ scores = << >>
    /\ j = 1
    /\ merged = << >>
    /\ final = << >>
    /\ vader = {5}
    /\ OthersIdle

NextPair == Extract \/ MatchPairs \/ ScorePair \/ ScorerRaises
            \/ AggregateStep \/ Return

SpecPair == InitPair /\ [][NextPair]_vars

-----------------------------------------------------------------------------
(* The normalization loop of LexiconABSA.analyze.  A text is a sequence of *)
(* code points.                                                            *)

RECURSIVE Replace_FirstOnly(_, _, _)
\* mutant of Replace: only the first occurrence is replaced
Replace_FirstOnly(s, old, new) ==
    IF Len(s) < Len(old) THEN s
    ELSE IF SubSeq(s, 1, Len(old)) = old
         THEN new \o SubSeq(s, Len(old) + 1, Len(s))
         ELSE <<Head(s)>> \o Replace_FirstOnly(Tail(s), old, new)

RECURSIVE Replace(_, _, _)
\* str.replace(old, new): every occurrence of old, found from the left
\* without overlap, is replaced by new
Replace(s, old, new) ==
    IF Len(s) < Len(old) THEN s
    ELSE IF SubSeq(s, 1, Len(old)) = old
         THEN new \o Replace(SubSeq(s, Len(old) + 1, Len(s)), old, new)
         ELSE <<Head(s)>> \o Replace(Tail(s), old, new)

\* f" {word} "
Padded(word) == <<" ">> \o Chars(word) \o <<" ">>

\* the code points the texts of the model are written in: the two halves of
\* the heart glyph, a one-code-point glyph, the characters of the ASCII
\* glyphs, a letter and the space
NormChars == {"U+2764", "U+FE0F", "U+1F60D", ":", ")", "(", "/", "s", " "}

InitNorm ==
    /\ self = Analyzer
    /\ \E n \in 0..MaxChars : text \in [1..n -> NormChars]
    /\ item = 1
    /\ LexIdle
    /\ vader = {}
    /\ CallsIdle
    /\ LlmIdle
    /\ TrfIdle

\* one iteration of the loop: text = text.replace(emo, f" {word} ")
Normalize ==
    /\ item <= Len(emoji_map)
    /\ text' = Replace(text, emoji_map[item].emo, Padded(emoji_map[item].word))
    /\ item' = item + 1
    /\ UNCHANGED <<self, lexVars, callVars, llm, trf>>

NextNorm == Normalize

SpecNorm == InitNorm /\ [][NextNorm]_vars

-----------------------------------------------------------------------------
(* Concurrent calls of analyze on one analyzer.  Each call has its own     *)
(* locals (calls[c]); every call reads the vocabularies of the one         *)
(* analyzer (self) and asks the one scorer (vader).  The list a call binds *)
(* to its local results is a heap object, named by its identity.           *)

CallIds == 1..MaxCalls

\* the parses the calls may get: the empty document, "good pizza",
\* "not good pizza", "good pizza disappoints", "Pizza was good"
CallDocs ==
    { << >>,
      ScoreDoc(<< >>),
      ScoreDoc(<< [text |-> "not", pos |-> "PART", dep |-> "neg"] >>),
      MkDoc(<< [text |-> "good",        pos |-> "ADJ",  dep |-> "amod"],
               [text |-> "pizza",       pos |-> "NOUN", dep |-> "nsubj"],
               [text |-> "disappoints", pos |-> "VERB", dep |-> "conj"] >>,
            <<2, 3, 3>>),
      MkDoc(<< [text |-> "Pizza", pos |-> "PROPN", dep |-> "nsubj"],
               [text |-> "was",   pos |-> "AUX",   dep |-> "conj"],
               [text |-> "good",  pos |-> "ADJ",   dep |-> "acomp"] >>,
            <<2, 2, 2>>) }

\* mutant of ResultsOf: one results list kept on the analyzer, for all calls
ResultsOf_Shared(c) == 1

\* results = []: the list of call c is a fresh object, the call's own
ResultsOf(c) == c

\* another call is between its parse and its return
Overlaps(c) ==
    \E o \in CallIds : o # c /\ calls[o].pc \in {"extract", "match", "score", "aggregate"}

InitCalls ==
    /\ self = Analyzer
    /\ calls = [c \in CallIds |->
                  [pc |-> "start", doc |-> << >>, aspects |-> << >>, pairs |-> << >>,
                   k |-> 1, cs |-> << >>, j |-> 1, merged |-> << >>, final |-> << >>,
                   overlap |-> FALSE]]
    /\ lists = [c \in CallIds |-> << >>]
    /\ LexIdle
    /\ vader = {5}
    /\ NormIdle
    /\ LlmIdle
    /\ TrfIdle

\* call c: doc = self.nlp(text); results = []
CallParse(c) ==
    /\ calls[c].pc = "start"
    /\ \E d \in CallDocs :
         calls' = [calls EXCEPT ![c].doc = d, ![c].pc = "extract",
                                ![c].overlap = @ \/ Overlaps(c)]
    /\ lists' = [lists EXCEPT ![ResultsOf(c)] = << >>]
    /\ UNCHANGED <<self, lexVars, normVars, llm, trf>>

\* call c, STEP 1
CallExtract(c) ==
    /\ calls[c].pc = "extract"
    /\ calls' = [calls EXCEPT ![c].aspects = ExtractAspects(calls[c].doc),
                              ![c].pc = "match",
                              ![c].overlap = @ \/ Overlaps(c)]
    /\ UNCHANGED <<self, lexVars, normVars, lists, llm, trf>>

\* call c, STEP 2
CallMatch(c) ==
    /\ calls[c].pc = "match"
    /\ LET ps == MatchPairsOf(calls[c].doc)
       IN  calls' = [calls EXCEPT ![c].pairs = ps,
                                  ![c].pc = IF ps = << >> THEN "aggregate" ELSE "score",
                                  ![c].overlap = @ \/ Overlaps(c)]
    /\ UNCHANGED <<self, lexVars, normVars, lists, llm, trf>>

\* call c, STEP 3, one iteration: the scorer returns compound comp (kept in
\* cs as history) and the record is appended to the call's results
CallScore(c) ==
    /\ calls[c].pc = "score"
    /\ calls[c].k <= Len(calls[c].pairs)
    /\ \E comp \in vader :
         /\ lists' = [lists EXCEPT ![ResultsOf(c)] =
                Append(@, AspectSentiment(calls[c].doc, calls[c].pairs[calls[c].k], comp))]
         /\ calls' = [calls EXCEPT
                ![c].cs = Append(@, comp),
                ![c].k = @ + 1,
                ![c].pc = IF calls[c].k = Len(calls[c].pairs) THEN "aggregate" ELSE "score",
                ![c].overlap = @ \/ Overlaps(c)]
    /\ UNCHANGED <<self, lexVars, normVars, llm, trf>>

\* call c, STEP 3: the scorer raises and the exception leaves the call
CallRaises(c) ==
    /\ calls[c].pc = "score"
    /\ calls[c].k <= Len(calls[c].pairs)
    /\ calls' = [calls EXCEPT ![c].pc = "raised", ![c].overlap = @ \/ Overlaps(c)]
    /\ UNCHANGED <<self, lexVars, normVars, lists, llm, trf>>

\* call c, STEP 4, one iteration of the aggregator's loop over results
CallAggregate(c) ==
    /\ calls[c].pc = "aggregate"
    /\ calls[c].j <= Len(lists[ResultsOf(c)])
    /\ calls' = [calls EXCEPT
           ![c].merged = MergeOne(@, lists[ResultsOf(c)][calls[c].j]),
           ![c].j = @ + 1,
           ![c].overlap = @ \/ Overlaps(c)]
    /\ UNCHANGED <<self, lexVars, normVars, lists, llm, trf>>

\* call c returns list(merged.values())
CallReturn(c) ==
    /\ calls[c].pc = "aggregate"
    /\ calls[c].j > Len(lists[ResultsOf(c)])
    /\ calls' = [calls EXCEPT ![c].final = Values(calls[c].merged), ![c].pc = "done",
                              ![c].overlap = @ \/ Overlaps(c)]
    /\ UNCHANGED <<self, lexVars, normVars, lists, llm, trf>>

NextCalls ==
    \E c \in CallIds :
        \/ CallParse(c)
        \/ CallExtract(c)
        \/ CallMatch(c)
        \/ CallScore(c)
        \/ CallRaises(c)
        \/ CallAggregate(c)
        \/ CallReturn(c)

SpecCalls == InitCalls /\ [][NextCalls]_vars

-----------------------------------------------------------------------------
(* OllamaABSA.analyze (src/src/llm_absa.py).  The HTTP exchange and the    *)
(* model's answer are inputs.  A JSON value is [type, val]; the val of an  *)
(* object is a record (its keys are the record's fields), the val of an    *)
(* array is a sequence.                                                    *)

JObject(d) == [type |-> "object", val |-> d]

JArray(s) == [type |-> "array", val |-> s]

JString(s) == [type |-> "string", val |-> s]

JNumber(n) == [type |-> "number", val |-> n]

JNull == [type |-> "null", val |-> "null"]

\* text around the JSON in the model's answer; it holds no brace
Noise == [type |-> "text", val |-> "noise"]

\* the entries the model may put in "aspects": well-formed ones (confidence
\* in tenths), one with no confidence, one with no sentiment, and entries
\* that are no objects
Items ==
    { JObject([aspect |-> JString("pizza"), sentiment |-> JString("positive"),
               confidence |-> JNumber(9)]),
      JObject([aspect |-> JString("service"), sentiment |-> JString("negative")]),
      JObject([aspect |-> JString("price")]),
      JString("pizza"),
      JNumber(5) }

ItemLists == UNION { [1..n -> Items] : n \in 0..MaxItems }

\* the JSON values the answer may hold: objects with an "aspects" key (an
\* array, null or a number), an object without it, and values that are no
\* objects (the arrays at top level hold no object)
JsonValues ==
    { JObject([aspects |-> JArray(l)]) : l \in ItemLists }
    \cup { JObject([aspects |-> JNull]), JObject([aspects |-> JNumber(5)]),
           JObject([error |-> JString("none")]),
           JArray(<< >>), JArray(<<JString("pizza")>>), JNull, JNumber(5),
           JString("pizza") }

\* content = "": nothing usable came back
NoContent == << >>

\* the non-empty content strings: a sequence of segments, each a JSON value
\* or text.  One value alone, a value after or before text, text alone, and
\* the same value twice
Contents ==
    { <<v>> : v \in JsonValues }
    \cup { <<Noise, v>> : v \in JsonValues }
    \cup { <<v, Noise>> : v \in JsonValues }
    \cup { <<v, v>> : v \in JsonValues }
    \cup { <<Noise>> }

\* json.loads(c): c decodes when it is one JSON value and nothing else;
\* otherwise json.JSONDecodeError
Loads(c) ==
    IF Len(c) = 1 /\ c[1].type # "text"
    THEN [ok |-> TRUE, value |-> c[1]]
    ELSE [ok |-> FALSE, value |-> JNull]

\* re.search(r"\{.*\}", c, re.DOTALL): the greedy match runs from the first
\* opening brace to the last closing brace, those of the first and the last
\* object of c; << >> stands for no match
RegexMatch(c) ==
    LET objs == { x \in 1..Len(c) : c[x].type = "object" }
    IN  IF objs = {} THEN << >>
        ELSE SubSeq(c, CHOOSE x \in objs : \A y \in objs : x <= y,
                       CHOOSE x \in objs : \A y \in objs : y <= x)

\* mutant of Remaining: one attempt more than max_retries
Remaining_OneMore(attempt, max_retries) == attempt <= max_retries

\* for attempt in range(self.max_retries): another iteration is due
Remaining(attempt, max_retries) == attempt < max_retries

\* mutant of Handled: the last handler (except Exception) left out
Handled_RequestsOnly(err) == err \in {"timeout", "request"}

\* the three except clauses catch a timeout, any other requests exception,
\* and any other Exception
Handled(err) == err \in {"timeout", "request", "unexpected"}

InitLlm ==
    /\ self = Analyzer
    /\ \E m \in (-1)..MaxRetries :
         llm = [pc |-> "loop", max_retries |-> m, attempt |-> 0, posts |-> 0,
                content |-> NoContent, last_error |-> "None", result |-> JNull,
                aspects |-> JNull, i |-> 1, parsed |-> << >>, returned |-> << >>]
    /\ LexIdle
    /\ vader = {}
    /\ NormIdle
    /\ CallsIdle
    /\ TrfIdle

\* requests.post returns and the answer carries non-empty content c: break
PostReturnsContent ==
    /\ llm.pc = "loop"
    /\ Remaining(llm.attempt, llm.max_retries)
    /\ \E c \in Contents :
         llm' = [llm EXCEPT !.attempt = @ + 1, !.posts = @ + 1, !.content = c,
                            !.pc = "after"]
    /\ UNCHANGED <<self, lexVars, normVars, callVars, trf>>

\* requests.post returns and the answer carries no content: next iteration
PostReturnsEmpty ==
    /\ llm.pc = "loop"
    /\ Remaining(llm.attempt, llm.max_retries)
    /\ llm' = [llm EXCEPT !.attempt = @ + 1, !.posts = @ + 1, !.content = NoContent]
    /\ UNCHANGED <<self, lexVars, normVars, callVars, trf>>

\* the try block raises: a timeout, another requests exception (a failed
\* connection, an HTTP error status) or any other exception; the handler
\* records it and the loop goes on
PostRaises ==
    /\ llm.pc = "loop"
    /\ Remaining(llm.attempt, llm.max_retries)
    /\ \E err \in {"timeout", "request", "unexpected"} :
         llm' = IF Handled(err)
                THEN [llm EXCEPT !.attempt = @ + 1, !.posts = @ + 1, !.last_error = err]
                ELSE [llm EXCEPT !.attempt = @ + 1, !.posts = @ + 1, !.pc = "raised"]
    /\ UNCHANGED <<self, lexVars, normVars, callVars, trf>>

\* range(self.max_retries) is exhausted
LoopEnds ==
    /\ llm.pc = "loop"
    /\ ~Remaining(llm.attempt, llm.max_retries)
    /\ llm' = [llm EXCEPT !.pc = "after"]
    /\ UNCHANGED <<self, lexVars, normVars, callVars, trf>>

\* if not content: return []
CheckContent ==
    /\ llm.pc = "after"
    /\ llm' = IF llm.content = NoContent
              THEN [llm EXCEPT !.returned = << >>, !.pc = "returned"]
              ELSE [llm EXCEPT !.pc = "loads"]
    /\ UNCHANGED <<self, lexVars, normVars, callVars, trf>>

\* result = json.loads(content); on JSONDecodeError the regex match is
\* decoded instead; return [] when there is no match or it does not decode
ParseJson ==
    /\ llm.pc = "loads"
    /\ LET first == Loads(llm.content)
           match == RegexMatch(llm.content)
           second == Loads(match)
       IN  llm' = IF first.ok
                  THEN [llm EXCEPT !.result = first.value, !.pc = "get"]
                  ELSE IF match # << >> /\ second.ok
                  THEN [llm EXCEPT !.result = second.value, !.pc = "get"]
                  ELSE [llm EXCEPT !.returned = << >>, !.pc = "returned"]
    /\ UNCHANGED <<self, lexVars, normVars, callVars, trf>>

\* aspects = result.get("aspects", []); len(aspects).  Only an object has
\* get (AttributeError otherwise), and of the values of the model null and
\* a number have no len() (TypeError); nothing catches either
GetAspects ==
    /\ llm.pc = "get"
    /\ LET r == llm.result
           a == IF "aspects" \in DOMAIN r.val THEN r.val.aspects ELSE JArray(<< >>)
       IN  llm' = IF r.type = "object" /\ a.type = "array"
                  THEN [llm EXCEPT !.aspects = a, !.pc = "items"]
                  ELSE [llm EXCEPT !.pc = "raised"]
    /\ UNCHANGED <<self, lexVars, normVars, callVars, trf>>

\* AspectSentiment(a["aspect"], a["sentiment"], confidence), confidence
\* being a.get("confidence", 1.0), in tenths
LlmRecord(a) ==
    [aspect |-> a.val.aspect, sentiment |-> a.val.sentiment,
     confidence |-> IF "confidence" \in DOMAIN a.val THEN a.val.confidence
                    ELSE JNumber(10)]

\* one iteration of the loop over aspects.  `"aspect" in a` is a key test on
\* an object and a substring test on a string (false for the strings of the
\* model); on a number it raises TypeError, which nothing catches
ItemStep ==
    /\ llm.pc = "items"
    /\ llm.i <= Len(llm.aspects.val)
    /\ LET a == llm.aspects.val[llm.i]
       IN  llm' = IF a.type = "object"
                  THEN IF {"aspect", "sentiment"} \subseteq DOMAIN a.val
                       THEN [llm EXCEPT !.parsed = Append(@, LlmRecord(a)), !.i = @ + 1]
                       ELSE [llm EXCEPT !.i = @ + 1]
                  ELSE IF a.type = "string"
                  THEN [llm EXCEPT !.i = @ + 1]
                  ELSE [llm EXCEPT !.pc = "raised"]
    /\ UNCHANGED <<self, lexVars, normVars, callVars, trf>>

\* return parsed
ReturnParsed ==
    /\ llm.pc = "items"
    /\ llm.i > Len(llm.aspects.val)
    /\ llm' = [llm EXCEPT !.returned = llm.parsed, !.pc = "returned"]
    /\ UNCHANGED <<self, lexVars, normVars, callVars, trf>>

NextLlm ==
    \/ PostReturnsContent
    \/ PostReturnsEmpty
    \/ PostRaises
    \/ LoopEnds
    \/ CheckContent
    \/ ParseJson
    \/ GetAspects
    \/ ItemStep
    \/ ReturnParsed

SpecLlm == InitLlm /\ [][NextLlm]_vars

-----------------------------------------------------------------------------
(* TransformerABSA.analyze (src/src/transformer_absa.py).  A text is the   *)
(* sequence of its tokens, words and punctuation marks; the empty sequence *)
(* stands for the empty and the whitespace-only text.  An aspect term is   *)
(* the sequence of its words ("" is the empty sequence).  The classifier's *)
(* answer is an input; scores are in tenths.                               *)

stop_words ==
    {"the", "a", "an", "and", "but", "or", "was", "is", "are", "were", "been",
     "be", "have", "has", "had"}

\* the tokens of the texts of the model: words, and a mark that is no word
TrfTokens == {"the", "pizza", "ok", "!"}

\* len(word)
WordLen(w) == CASE w = "the" -> 3 [] w = "pizza" -> 5 [] w = "ok" -> 2 [] OTHER -> 1

\* re.findall(r'\b\w+\b', text.lower())
WordsOf(txt) == SelectSeq(txt, LAMBDA t : t # "!")

\* text_lower.find(term): the first place the term occurs in the text, 0
\* for -1
Find(txt, term) ==
    LET at == { a \in 1..Len(txt) : a + Len(term) - 1 <= Len(txt)
                                    /\ SubSeq(txt, a, a + Len(term) - 1) = term }
    IN  IF at = {} THEN 0 ELSE CHOOSE a \in at : \A b \in at : a <= b

RECURSIVE CandidatesFrom(_, _, _)
\* the loop over the words from word i on: a word that is no stop word and
\* longer than two characters is a candidate, and so is the phrase it makes
\* with the next word when that is no stop word and the phrase is found in
\* the text
CandidatesFrom(txt, ws, i) ==
    IF i > Len(ws) THEN << >>
    ELSE IF ws[i] \in stop_words \/ WordLen(ws[i]) <= 2
         THEN CandidatesFrom(txt, ws, i + 1)
         ELSE LET single == IF Find(txt, <<ws[i]>>) # 0 THEN << <<ws[i]>> >> ELSE << >>
                  phrase == IF /\ i < Len(ws)
                               /\ ws[i + 1] \notin stop_words
                               /\ Find(txt, <<ws[i], ws[i + 1]>>) # 0
                            THEN << <<ws[i], ws[i + 1]>> >> ELSE << >>
              IN  single \o phrase \o CandidatesFrom(txt, ws, i + 1)

RECURSIVE Unique(_)
\* remove duplicates while preserving order
Unique(s) ==
    IF s = << >> THEN << >>
    ELSE LET front == Unique(SubSeq(s, 1, Len(s) - 1))
             last == s[Len(s)]
         IN  IF \E x \in 1..Len(front) : front[x] = last THEN front
             ELSE Append(front, last)

\* _extract_candidate_aspects(text), the aspect terms of the tuples
extract_candidate_aspects(txt) == Unique(CandidatesFrom(txt, WordsOf(txt), 1))

\* aspect_positions.get(aspect, None): the span of an extracted term, << >>
\* (None) for a supplied one
SpanOf(t, aspect) ==
    IF t.given THEN << >>
    ELSE <<Find(t.text, aspect), Find(t.text, aspect) + Len(aspect)>>

Threshold == 3

\* mutant of Exceeds: a confidence of exactly 0.3 passes too
Exceeds_Inclusive(confidence) == confidence >= Threshold

\* confidence > 0.3
Exceeds(confidence) == confidence > Threshold

\* the scores the classifier may give, in tenths
TrfScores == {3, 5, 9}

\* the labels of the model's classes, as the pipeline returns them
TrfLabels == {"Positive", "Negative"}

\* the aspect terms a caller may supply: "", "pizza", "service"
TrfAspects == { << >>, <<"pizza">>, <<"service">> }

\* results.sort(key=lambda x: x.confidence, reverse=True), one insertion: r
\* goes behind the records whose confidence is not lower (the sort is stable)
InsertDesc(sorted, r) ==
    LET p == Cardinality({ x \in 1..Len(sorted) : sorted[x].confidence >= r.confidence })
    IN  SubSeq(sorted, 1, p) \o <<r>> \o SubSeq(sorted, p + 1, Len(sorted))

RECURSIVE SortFrom(_, _, _)
SortFrom(sorted, rs, i) ==
    IF i > Len(rs) THEN sorted ELSE SortFrom(InsertDesc(sorted, rs[i]), rs, i + 1)

SortDesc(rs) == SortFrom(<< >>, rs, 1)

\* mutant of OnClassifyError: the error ends the call with the empty list, as
\* the outer handler does
OnClassifyError_Abort(t) == [t EXCEPT !.returned = << >>, !.pc = "returned"]

\* except Exception: continue, in the loop over the aspects
OnClassifyError(t) == [t EXCEPT !.n = @ + 1]

InitTrf ==
    /\ self = Analyzer
    /\ \E nw \in 0..MaxWords : \E txt \in [1..nw -> TrfTokens] :
         \E given \in BOOLEAN :
           \E na \in 0..(IF given THEN MaxAspects ELSE 0) :
             \E list \in [1..na -> TrfAspects] :
               trf = [pc |-> "start", text |-> txt, given |-> given, aspects |-> list,
                      todo |-> << >>, n |-> 1, results |-> << >>, outcomes |-> << >>,
                      returned |-> << >>]
    /\ LexIdle
    /\ vader = {}
    /\ NormIdle
    /\ CallsIdle
    /\ LlmIdle

\* the entry of analyze: [] for an empty or whitespace-only text; else the
\* aspects to analyze are the supplied ones or the extracted candidates
TrfStart ==
    /\ trf.pc = "start"
    /\ trf' = IF trf.text = << >>
              THEN [trf EXCEPT !.returned = << >>, !.pc = "returned"]
              ELSE [trf EXCEPT !.todo = IF trf.given THEN trf.aspects
                                        ELSE extract_candidate_aspects(trf.text),
                               !.pc = "loop"]
    /\ UNCHANGED <<self, lexVars, normVars, callVars, llm>>

\* one iteration: the classifier answers (label, score) for aspect n, and
\* the record is kept when the score exceeds the threshold
TrfClassify ==
    /\ trf.pc = "loop"
    /\ trf.n <= Len(trf.todo)
    /\ \E label \in TrfLabels : \E score \in TrfScores :
         LET r == [aspect |-> trf.todo[trf.n], sentiment |-> Lower(label),
                   confidence |-> score, text_span |-> SpanOf(trf, trf.todo[trf.n])]
         IN  trf' = [trf EXCEPT
                 !.results = IF Exceeds(score) THEN Append(@, r) ELSE @,
                 !.outcomes = Append(@, [raised |-> FALSE, label |-> label, score |-> score]),
                 !.n = @ + 1]
    /\ UNCHANGED <<self, lexVars, normVars, callVars, llm>>

\* one iteration: classifying aspect n raises
TrfClassifyRaises ==
    /\ trf.pc = "loop"
    /\ trf.n <= Len(trf.todo)
    /\ trf' = OnClassifyError(
                [trf EXCEPT !.outcomes = Append(@, [raised |-> TRUE, label |-> "", score |-> 0])])
    /\ UNCHANGED <<self, lexVars, normVars, callVars, llm>>

\* the loop has ended: sort by confidence, highest first, and return
TrfReturn ==
    /\ trf.pc = "loop"
    /\ trf.n > Len(trf.todo)
    /\ trf' = [trf EXCEPT !.results = SortDesc(@), !.returned = SortDesc(trf.results),
                          !.pc = "returned"]
    /\ UNCHANGED <<self, lexVars, normVars, callVars, llm>>

NextTrf == TrfStart \/ TrfClassify \/ TrfClassifyRaises \/ TrfReturn

SpecTrf == InitTrf /\ [][NextTrf]_vars

(* TransformerABSA.analyze_batch: one call of the classifier on all the    *)
(* supplied aspects                                                        *)

\* the call's arguments; the words of the text do not matter to the method
InitBatch ==
    /\ self = Analyzer
    /\ \E nw \in 0..1 : \E txt \in [1..nw -> TrfTokens] :
         \E na \in 0..MaxAspects : \E list \in [1..na -> TrfAspects] :
           trf = [pc |-> "batch_start", text |-> txt, given |-> TRUE, aspects |-> list,
                  todo |-> << >>, n |-> 1, results |-> << >>, outcomes |-> << >>,
                  returned |-> << >>]
    /\ LexIdle
    /\ vader = {}
    /\ NormIdle
    /\ CallsIdle
    /\ LlmIdle

\* the entry of analyze_batch: [] for an empty or whitespace-only text and
\* for an empty list of aspects
BatchStart ==
    /\ trf.pc = "batch_start"
    /\ trf' = IF trf.text = << >> \/ trf.aspects = << >>
              THEN [trf EXCEPT !.returned = << >>, !.pc = "batch_returned"]
              ELSE [trf EXCEPT !.todo = trf.aspects, !.pc = "batch"]
    /\ UNCHANGED <<self, lexVars, normVars, callVars, llm>>

\* the classifier answers one prediction per aspect; the records whose
\* score is above 0.3 are kept, sorted by confidence, highest first, and
\* returned
BatchPredict ==
    /\ trf.pc = "batch"
    /\ \E predictions \in [1..Len(trf.todo) -> [label : TrfLabels, score : TrfScores]] :
         LET rs == [x \in 1..Len(trf.todo) |->
                      [aspect |-> trf.todo[x], sentiment |-> Lower(predictions[x].label),
                       confidence |-> predictions[x].score, text_span |-> << >>]]
             kept == SelectSeq(rs, LAMBDA r : r.confidence > Threshold)
         IN  trf' = [trf EXCEPT
                 !.outcomes = [x \in 1..Len(trf.todo) |->
                                 [raised |-> FALSE, label |-> predictions[x].label,
                                  score |-> predictions[x].score]],
                 !.n = Len(trf.todo) + 1,
                 !.results = SortDesc(kept),
                 !.returned = SortDesc(kept),
                 !.pc = "batch_returned"]
    /\ UNCHANGED <<self, lexVars, normVars, callVars, llm>>

\* the call of the classifier raises: except Exception: return []
BatchRaises ==
    /\ trf.pc = "batch"
    /\ trf' = [trf EXCEPT !.returned = << >>, !.pc = "batch_returned"]
    /\ UNCHANGED <<self, lexVars, normVars, callVars, llm>>

(* analyze and analyze_batch, one call of either *)

InitTrfBoth == InitTrf \/ InitBatch

NextTrfBoth ==
    \/ TrfStart
    \/ TrfClassify
    \/ TrfClassifyRaises
    \/ TrfReturn
    \/ BatchStart
    \/ BatchPredict
    \/ BatchRaises

SpecTrfBoth == InitTrfBoth /\ [][NextTrfBoth]_vars

-----------------------------------------------------------------------------
(* analyze on the documents that exercise the negation detector: "good     *)
(* pizza" preceded by words that are or are not negations, each attached   *)
(* to the opinion or to the aspect (the opinion's head)                    *)

NegKinds ==
    { [text |-> "not",  pos |-> "PART", dep |-> "neg"],
      [text |-> "Not",  pos |-> "PART", dep |-> "neg"],
      [text |-> "no",   pos |-> "DET",  dep |-> "det"],
      [text |-> "very", pos |-> "ADV",  dep |-> "advmod"] }

\* the words, then the opinion (head: the aspect), then the aspect (a root);
\* h[i] says whether word i hangs from the opinion or from the aspect
NegDoc(words, h) ==
    LET n == Len(words)
        kinds == words \o << [text |-> "good",  pos |-> "ADJ",  dep |-> "amod"],
                             [text |-> "pizza", pos |-> "NOUN", dep |-> "nsubj"] >>
    IN  MkDoc(kinds, [i \in 1..(n + 2) |-> IF i <= n THEN h[i] ELSE n + 2])

InitNeg ==
    /\ self = Analyzer
    /\ pc = "extract"
    /\ \E n \in 0..MaxNegWords : \E words \in [1..n -> NegKinds] :
         \E h \in [1..n -> {n + 1, n + 2}] :
           doc = NegDoc(words, h)
    /\ aspects = << >>
    /\ pairs = << >>
    /\ k = 1
    /\ results = << >>
    /\ scores = << >>
    /\ j = 1
    /\ merged = << >>
    /\ final = << >>
    /\ vader = {-5, 5}
    /\ OthersIdle

NextNeg == Extract \/ MatchPairs \/ ScorePair \/ ScorerRaises
           \/ AggregateStep \/ Return

SpecNeg == InitNeg /\ [][NextNeg]_vars

-----------------------------------------------------------------------------
(* analyze on the documents that exercise the softeners: "good pizza"      *)
(* preceded by one-word softeners and by the words of "a bit" and "kind    *)
(* of", one token per word, under the taggings a parser may give them      *)

SoftKinds ==
    { [text |-> "slightly", pos |-> "ADV",  dep |-> "advmod"],
      [text |-> "somewhat", pos |-> "ADV",  dep |-> "advmod"],
      [text |-> "barely",   pos |-> "ADV",  dep |-> "advmod"],
      [text |-> "rather",   pos |-> "ADV",  dep |-> "advmod"],
      [text |-> "a",        pos |-> "DET",  dep |-> "det"],
      [text |-> "bit",      pos |-> "NOUN", dep |-> "npadvmod"],
      [text |-> "bit",      pos |-> "ADV",  dep |-> "advmod"],
      [text |-> "kind",     pos |-> "ADV",  dep |-> "advmod"],
      [text |-> "of",       pos |-> "ADV",  dep |-> "advmod"],
      [text |-> "of",       pos |-> "ADP",  dep |-> "prep"] }

InitSoft ==
    /\ self = Analyzer
    /\ pc = "extract"
    /\ \E n \in 0..MaxSoftWords : \E mods \in [1..n -> SoftKinds] :
         doc = ScoreDoc(mods)
    /\ aspects = << >>
    /\ pairs = << >>
    /\ k = 1
    /\ results = << >>
    /\ scores = << >>
    /\ j = 1
    /\ merged = << >>
    /\ final = << >>
    /\ vader = {-5, 5}
    /\ OthersIdle

NextSoft == Extract \/ MatchPairs \/ ScorePair \/ ScorerRaises
            \/ AggregateStep \/ Return

SpecSoft == InitSoft /\ [][NextSoft]_vars

-----------------------------------------------------------------------------
(* Properties of the aggregator (checked under SpecAgg) *)

\* the input records of the group of lowercased aspect text a
Group(a) == { i \in 1..Len(results) : Lower(results[i].aspect) = a }

\* the records of group a that no record of the group exceeds in confidence
Top(a) == { i \in Group(a) :
              \A i2 \in Group(a) : RLeq(results[i2].confidence, results[i].confidence) }

\* C1: the aggregated output holds exactly one record per distinct lowercased
\* aspect text of the input, and that record's confidence is the maximum
\* confidence of the input records of its group.
C1_OneRecordPerAspectWithMaxConfidence ==
    pc = "done" =>
        /\ { Lower(final[x].aspect) : x \in 1..Len(final) }
             = { Lower(results[i].aspect) : i \in 1..Len(results) }
        /\ \A x, y \in 1..Len(final) :
             Lower(final[x].aspect) = Lower(final[y].aspect) => x = y
        /\ \A x \in 1..Len(final) :
             \E i \in Top(Lower(final[x].aspect)) :
                 final[x].confidence = results[i].confidence

\* C1 witness: "pizza" with 0.4 and "Pizza" with 0.9 give one record with 0.9
C1_Witness ==
    /\ pc = "done"
    /\ Len(results) = 3
    /\ results[1].aspect = "pizza" /\ results[1].confidence = Rat(4, 10)
    /\ results[2].aspect = "service"
    /\ results[3].aspect = "Pizza" /\ results[3].confidence = Rat(9, 10)
    /\ Len(final) = 2
    /\ final[1] = results[3]

\* C2: when several records of one lowercased aspect share the highest
\* confidence, the aggregator retains the one that comes first in the input.
C2_TieKeepsFirstSeen ==
    pc = "done" =>
        \A x \in 1..Len(final) :
            final[x] = results[Min(Top(Lower(final[x].aspect)))]

\* C2 witness: two different records of one aspect tie at the highest
\* confidence, and the earlier one is returned
C2_Witness ==
    /\ pc = "done"
    /\ Len(results) = 2
    /\ Lower(results[1].aspect) = Lower(results[2].aspect)
    /\ results[1].confidence = results[2].confidence
    /\ results[1] # results[2]
    /\ final = << results[1] >>

-----------------------------------------------------------------------------
(* Properties of the scoring of a pair (checked under SpecScore).  Record  *)
(* x of results was built from pair x, and scores[x] is its final score.   *)

\* the lowercase texts of the adverbs near the opinion of pair x
AdvsOf(x) == LowerTexts(doc, Modifiers(doc, pairs[x].opinion))

NegatedOf(x) == has_negation(doc, pairs[x].opinion)

Returned(x) == pc = "done" /\ \E y \in 1..Len(final) : final[y] = results[x]

\* C3: the label of every record is decided by its final clamped score:
\* positive iff score > 0.3, negative iff score < -0.3, neutral on [-0.3, 0.3].
C3_LabelFromClampedScore ==
    /\ pc = "done" => \A y \in 1..Len(final) : \E x \in 1..Len(results) : final[y] = results[x]
    /\ \A x \in 1..Len(results) :
         LET vs == scores[x]
         IN  /\ -vs.d <= vs.n /\ vs.n <= vs.d
             /\ results[x].sentiment = "positive" <=> 10 * vs.n > 3 * vs.d
             /\ results[x].sentiment = "negative" <=> 10 * vs.n < -3 * vs.d
             /\ results[x].sentiment = "neutral"
                  <=> (-3 * vs.d <= 10 * vs.n /\ 10 * vs.n <= 3 * vs.d)

\* C3 witness: a returned record whose score, after an adverb and the
\* negation flip, is exactly -0.3, labelled neutral
C3_Witness ==
    \E x \in 1..Len(results) :
        /\ Returned(x)
        /\ scores[x] = Rat(-3, 10)
        /\ NegatedOf(x)
        /\ AdvsOf(x) # << >>
        /\ results[x].sentiment = "neutral"

\* C4: the confidence of every record lies in [0, 1], whatever the compound
\* score, the number of nearby adverbs and the negation outcome.
C4_ConfidenceInUnitInterval ==
    \A x \in 1..Len(results) :
        /\ results[x].confidence.d > 0
        /\ 0 <= results[x].confidence.n
        /\ results[x].confidence.n <= results[x].confidence.d

\* C4 witness: a returned record whose |score| + 0.1 * adverbs exceeds 1 and
\* whose confidence is 1
C4_Witness ==
    \E x \in 1..Len(results) :
        /\ Returned(x)
        /\ Len(AdvsOf(x)) >= 2
        /\ RLess(Rat(1, 1), RAdd(RAbs(scores[x]), Rat(Len(AdvsOf(x)), 10)))
        /\ results[x].confidence = Rat(1, 1)

SwapLabel(l) == CASE l = "positive" -> "negative"
                  [] l = "negative" -> "positive"
                  [] OTHER -> l

\* C5: when the negation detector is true for a pair, its record has, compared
\* with the same pair (same compound, same adverbs) without negation, the
\* label swapped positive <-> negative (neutral stays) and equal confidence.
C5_NegationSwapsLabelKeepsConfidence ==
    \A x \in 1..Len(results) :
        NegatedOf(x) =>
            LET plain == Score(results[x].vader_breakdown, AdvsOf(x), FALSE)
            IN  /\ results[x].sentiment = SwapLabel(plain.sentiment)
                /\ results[x].confidence = plain.confidence

\* C5 witness: a returned negated record of a negative compound, labelled
\* positive, with an adverb in the window
C5_Witness ==
    \E x \in 1..Len(results) :
        /\ Returned(x)
        /\ NegatedOf(x)
        /\ results[x].vader_breakdown < 0
        /\ AdvsOf(x) # << >>
        /\ results[x].sentiment = "positive"

\* C6: a pair with exactly one adverb in the window, an intensifier, has
\* confidence >= that of the same pair (same compound, same negation) with no
\* adverb in the window.
C6_IntensifierNeverLowersConfidence ==
    \A x \in 1..Len(results) :
        (Len(AdvsOf(x)) = 1 /\ AdvsOf(x)[1] \in intensifiers) =>
            RLeq(Score(results[x].vader_breakdown, << >>, NegatedOf(x)).confidence,
                 results[x].confidence)

\* C6 witness: a returned record with one intensifier whose confidence is
\* strictly above that of the bare pair
C6_Witness ==
    \E x \in 1..Len(results) :
        /\ Returned(x)
        /\ AdvsOf(x) = << "very" >>
        /\ RLess(Score(results[x].vader_breakdown, << >>, NegatedOf(x)).confidence,
                 results[x].confidence)

\* C7: a pair with exactly one adverb in the window, a softener, has
\* confidence <= that of the same pair (same compound, same negation) with no
\* adverb in the window.
C7_SoftenerNeverRaisesConfidence ==
    \A x \in 1..Len(results) :
        (Len(AdvsOf(x)) = 1 /\ AdvsOf(x)[1] \in softeners) =>
            RLeq(results[x].confidence,
                 Score(results[x].vader_breakdown, << >>, NegatedOf(x)).confidence)

-----------------------------------------------------------------------------
(* Properties of analyze on parsed documents (checked under Spec) *)

\* the document has no token, or only whitespace tokens
AllWhitespace(d) == \A t \in 1..Len(d) : d[t].pos = "SPACE"

\* C8: on a document with no tokens or only whitespace tokens, analyze finds
\* no pair, raises no error and returns the empty list.
C8_WhitespaceGivesEmptyList ==
    (pc # "start" /\ AllWhitespace(doc)) =>
        /\ pc \in {"extract", "match", "aggregate", "done"}
        /\ results = << >>
        /\ final = << >>

\* C8 witness: analyze has returned on a whitespace-only document
C8_Witness ==
    /\ pc = "done"
    /\ Len(doc) >= 2
    /\ AllWhitespace(doc)
    /\ final = << >>

\* C9: a failure of the scorer for one pair leaves the call running: that
\* pair is skipped, the records of the other pairs are still returned, and
\* the exception never leaves analyze.
C9_ScorerFailureSkipsOnlyThatPair ==
    pc # "raised"

\* C10: no returned record has its aspect in a noun chunk that holds a token
\* whose lowercase text is a normalization target word.
C10_NoAspectFromEmojiWordChunk ==
    pc = "done" =>
        \A y \in 1..Len(final) :
            \A x \in 1..Len(NounChunks(doc)) :
                LET c == NounChunks(doc)[x]
                IN  (c.start <= final[y].text_span /\ final[y].text_span <= c.end)
                        => ~HasEmojiWord(doc, c)

-----------------------------------------------------------------------------
(* Properties of the pair matcher (checked under SpecPair) *)

\* STEP 2 has run: pairs holds the pair matcher's output for doc
Matched == pc \in {"score", "aggregate", "done", "raised"}

InPairs(a, o) == \E x \in 1..Len(pairs) : pairs[x] = Pair(a, o)

SubjectDeps == {"nsubj", "nsubjpass"}

NounPos == {"NOUN", "PROPN"}

\* the condition of rule 1 on (aspect a, opinion o), read off the document
AmodCond(a, o) ==
    doc[o].dep = "amod" /\ doc[o].head = a /\ doc[a].pos \in NounPos

\* the condition of rule 2 as the code tests it (no test of the subject's POS)
AcompCond(a, o) ==
    /\ doc[o].dep = "acomp"
    /\ doc[doc[o].head].pos \in {"VERB", "AUX"}
    /\ a # doc[o].head
    /\ doc[a].head = doc[o].head
    /\ doc[a].dep \in SubjectDeps

\* the condition of rule 3
VerbCond(a, o) ==
    /\ doc[o].pos = "VERB"
    /\ a # o
    /\ doc[a].head = o
    /\ doc[a].dep \in SubjectDeps
    /\ doc[a].pos \in NounPos

\* C11: the three pairing rules are independent: for every token, the pairs
\* of every rule whose condition it satisfies are all produced, also when
\* an earlier rule in precedence fires on the same token.
C11_EveryFiringRuleContributes ==
    Matched =>
        \A o \in 1..Len(doc) : \A a \in 1..Len(doc) :
            (AmodCond(a, o) \/ AcompCond(a, o) \/ VerbCond(a, o)) => InPairs(a, o)

-----------------------------------------------------------------------------
(* Properties of the normalization loop (checked under SpecNorm) *)

\* the loop over emoji_map has ended
Normalized == item > Len(emoji_map)

RECURSIVE PassFrom(_, _)
\* the replacement pass from item i on, applied to the text t
PassFrom(t, i) ==
    IF i > Len(emoji_map) THEN t
    ELSE PassFrom(Replace(t, emoji_map[i].emo, Padded(emoji_map[i].word)), i + 1)

\* the glyph g occurs in the text t
Occurs(g, t) ==
    \E a \in 1..Len(t) : a + Len(g) - 1 <= Len(t) /\ SubSeq(t, a, a + Len(g) - 1) = g

\* C12: normalization is idempotent: after one replacement pass no glyph of
\* the table occurs in the text, and a second pass leaves the text as the
\* first pass made it.
C12_NormalizationIdempotent ==
    Normalized =>
        /\ \A i \in 1..Len(emoji_map) : ~Occurs(emoji_map[i].emo, text)
        /\ PassFrom(text, 1) = text

\* C12 witness: the pass has ended on ":):(": both glyphs are words now,
\* each with its padding
C12_Witness ==
    /\ Normalized
    /\ text = Padded("smile") \o Padded("sad")

-----------------------------------------------------------------------------
(* Properties of concurrent calls (checked under SpecCalls) *)

RECURSIVE MergeFrom(_, _, _)
\* the aggregator's loop over the list rs from position i on
MergeFrom(m, rs, i) ==
    IF i > Len(rs) THEN m ELSE MergeFrom(MergeOne(m, rs[i]), rs, i + 1)

\* what analyze returns when it runs alone on the parse d and the scorer
\* answers cs[x] for pair x
AnalyzeAlone(d, cs) ==
    LET ps == MatchPairsOf(d)
        rs == [x \in 1..Len(ps) |-> AspectSentiment(d, ps[x], cs[x])]
    IN  Values(MergeFrom(<< >>, rs, 1))

\* C13: analyze changes no state of the analyzer (the negation, intensifier
\* and softener sets and the emoji table stay as __init__ built them), and
\* under every interleaving of the calls each call returns what it returns
\* alone on the same text with the same scorer answers.
C13_CallsDoNotInterfere ==
    /\ self = Analyzer
    /\ \A c \in CallIds :
         calls[c].pc = "done" =>
             /\ Len(calls[c].cs) = Len(MatchPairsOf(calls[c].doc))
             /\ calls[c].final = AnalyzeAlone(calls[c].doc, calls[c].cs)

\* C13 witness: two calls that ran while the other was in progress have both
\* returned, one a positive record and the other a negative one
C13_Witness ==
    /\ calls[1].pc = "done" /\ calls[1].overlap
    /\ calls[2].pc = "done" /\ calls[2].overlap
    /\ Len(calls[1].final) = 1 /\ calls[1].final[1].sentiment = "positive"
    /\ Len(calls[2].final) = 1 /\ calls[2].final[1].sentiment = "negative"

-----------------------------------------------------------------------------
(* Properties of the returned records (checked under SpecScore) *)

\* C14: every record analyze returns with label positive or negative has
\* confidence strictly greater than 0.3.
C14_PolarRecordsAreConfident ==
    pc = "done" =>
        \A y \in 1..Len(final) :
            final[y].sentiment \in {"positive", "negative"}
                => 10 * final[y].confidence.n > 3 * final[y].confidence.d

\* C14 witness: a returned negative record with no adverb near its opinion,
\* whose confidence 0.4 is the magnitude of its score
C14_Witness ==
    /\ pc = "done"
    /\ \E y \in 1..Len(final) :
         /\ final[y].sentiment = "negative"
         /\ final[y].confidence = Rat(2, 5)
         /\ Modifiers(doc, pairs[1].opinion) = << >>

-----------------------------------------------------------------------------
(* Properties of OllamaABSA.analyze (checked under SpecLlm) *)

\* the number of POST requests max_retries allows
Allowed == IF llm.max_retries > 0 THEN llm.max_retries ELSE 0

\* the records of the well-formed entries of the array l, in order
RecordsOf(l) ==
    LET good == SelectSeq(l, LAMBDA a : a.type = "object"
                                        /\ "aspect" \in DOMAIN a.val
                                        /\ "sentiment" \in DOMAIN a.val)
    IN  [x \in 1..Len(good) |-> LlmRecord(good[x])]

\* C15: the retry protocol.  A call issues at most max_retries POST requests;
\* it leaves the loop with no content only when all its attempts are used
\* (each raised or returned empty content); once an attempt has returned
\* non-empty content no further request is issued; and the list returned
\* from content that is a JSON object, alone or next to other text, holds
\* the records of its aspects.
C15_RetryProtocol ==
    /\ [](/\ llm.posts <= Allowed
          /\ (llm.pc # "loop" /\ llm.content = NoContent) => llm.posts = Allowed
          /\ llm.content # NoContent => llm.pc # "loop"
          /\ \A x \in 1..Len(llm.content) :
                (/\ llm.pc = "returned"
                 /\ llm.content[x].type = "object"
                 /\ \A y \in 1..Len(llm.content) : y # x => llm.content[y].type = "text"
                 /\ "aspects" \in DOMAIN llm.content[x].val)
                => llm.returned = RecordsOf(llm.content[x].val.aspects.val))
    /\ [][llm.content # NoContent => llm'.posts = llm.posts /\ llm'.content = llm.content]_vars

\* C15 witness: the first attempt timed out, the second returned content,
\* and the call has returned the records of that content's two aspects
C15_Witness ==
    /\ llm.pc = "returned"
    /\ llm.posts = 2
    /\ llm.last_error = "timeout"
    /\ llm.content # NoContent
    /\ Len(llm.returned) = 2

\* C16: when every attempt raises or returns empty content (or max_retries
\* <= 0 and no request is made), the call raises nothing and returns the
\* empty list.
C16_AllAttemptsFailedReturnsEmpty ==
    /\ [](/\ llm.content = NoContent =>
                /\ llm.pc \in {"loop", "after", "returned"}
                /\ llm.pc = "returned" => llm.returned = << >>
          /\ llm.max_retries <= 0 => llm.posts = 0 /\ llm.content = NoContent)
    /\ [][(llm.pc = "after" /\ llm.content = NoContent)
            => (llm'.pc = "returned" /\ llm'.returned = << >>)]_vars

\* C16 witness: two attempts were made, the last one raised an exception
\* that is no requests exception, and the call has returned the empty list
C16_Witness ==
    /\ llm.pc = "returned"
    /\ llm.max_retries = 2
    /\ llm.posts = 2
    /\ llm.last_error = "unexpected"
    /\ llm.content = NoContent
    /\ llm.returned = << >>

\* C17: whatever non-empty content the model returns (a JSON object, JSON
\* inside other text, JSON of another shape, no JSON at all), the call
\* raises nothing.
C17_MalformedOutputNeverRaises ==
    llm.pc # "raised"

-----------------------------------------------------------------------------
(* Properties of TransformerABSA.analyze (checked under SpecTrf) *)

\* the classification of aspect x of the list succeeded, with a score above
\* the threshold
Kept(x) == ~trf.outcomes[x].raised /\ trf.outcomes[x].score > 3

\* the record that comes from classifying aspect x is in the returned list
Appears(x) ==
    \E y \in 1..Len(trf.returned) :
        /\ trf.returned[y].aspect = trf.todo[x]
        /\ trf.returned[y].sentiment \in {"positive", "negative"}
        /\ trf.returned[y].sentiment = Lower(trf.outcomes[x].label)
        /\ trf.returned[y].confidence = trf.outcomes[x].score

\* C18: per-aspect failures are isolated.  When the call has returned on a
\* supplied list of aspects, every aspect of the list has been classified,
\* every aspect whose classification succeeded with a score above 0.3 is in
\* the result although the classification of another aspect raised, and the
\* result holds nothing else.
C18_ClassifierFailureSkipsOneAspect ==
    (trf.pc = "returned" /\ trf.text # << >> /\ trf.given) =>
        /\ Len(trf.outcomes) = Len(trf.aspects)
        /\ \A x \in 1..Len(trf.aspects) : Kept(x) => Appears(x)
        /\ Len(trf.returned) = Cardinality({ x \in 1..Len(trf.aspects) : Kept(x) })

\* C18 witness: the aspects "" and "pizza" were supplied, classifying the
\* first raised, and the record of the second has been returned
C18_Witness ==
    /\ trf.pc = "returned"
    /\ trf.given
    /\ trf.aspects = << << >>, <<"pizza">> >>
    /\ Len(trf.outcomes) = 2
    /\ trf.outcomes[1].raised
    /\ Len(trf.returned) = 1
    /\ trf.returned[1].aspect = <<"pizza">>

-----------------------------------------------------------------------------
(* More properties of the pair matcher (checked under SpecPair) *)

\* the token o meets the condition on the opinion of one of the rules
OpinionCond(o) ==
    \/ doc[o].dep = "amod" /\ doc[doc[o].head].pos \in NounPos
    \/ doc[o].dep = "acomp" /\ doc[doc[o].head].pos \in {"VERB", "AUX"}
    \/ doc[o].pos = "VERB"

\* C19: the pair matcher is sound.  In every pair the opinion is amod and the
\* aspect its NOUN/PROPN head, or the opinion is acomp with a VERB/AUX head
\* and the aspect a subject child of that head, or the opinion is a VERB and
\* the aspect its NOUN/PROPN subject child; and a token that meets none of
\* the rules' conditions is the opinion of no pair.
C19_EveryPairSatisfiesARule ==
    Matched =>
        /\ \A x \in 1..Len(pairs) :
             /\ pairs[x].aspect \in 1..Len(doc)
             /\ pairs[x].opinion \in 1..Len(doc)
             /\ \/ AmodCond(pairs[x].aspect, pairs[x].opinion)
                \/ AcompCond(pairs[x].aspect, pairs[x].opinion)
                \/ VerbCond(pairs[x].aspect, pairs[x].opinion)
        /\ \A o \in 1..Len(doc) :
             ~OpinionCond(o) => \A x \in 1..Len(pairs) : pairs[x].opinion # o

\* C19 witness: in "pizza disappoints good" (pizza the subject and good the
\* complement of the verb) rule 3 pairs pizza with the verb and rule 2 pairs
\* it with the complement
C19_Witness ==
    /\ pc = "done"
    /\ Len(pairs) = 2
    /\ VerbCond(pairs[1].aspect, pairs[1].opinion)
    /\ AcompCond(pairs[2].aspect, pairs[2].opinion)
    /\ ~AmodCond(pairs[2].aspect, pairs[2].opinion)

\* C20: the aspect of every record analyze emits is a token whose
\* part-of-speech is NOUN or PROPN, whichever rule produced its pair.
C20_AspectsAreNouns ==
    \A x \in 1..Len(results) : doc[results[x].text_span].pos \in NounPos

-----------------------------------------------------------------------------
(* Properties of the score and the confidence of a pair (checked under     *)
(* SpecScore)                                                              *)

\* the ADV tokens whose position differs from that of the opinion of pair x
\* by at most 3
NearAdverbs(x) ==
    { t \in 1..Len(doc) :
        /\ doc[t].pos = "ADV"
        /\ t - pairs[x].opinion <= 3
        /\ pairs[x].opinion - t <= 3 }

RECURSIVE Pow(_, _)
\* the rational r to the power n
Pow(r, n) == IF n = 0 THEN Rat(1, 1) ELSE RMul(r, Pow(r, n - 1))

\* C21: the final score of every pair is the clamp to [-1, 1] of
\* s * compound * 1.2^k * 0.8^m, with k and m the numbers of ADV tokens
\* within distance 3 of the opinion whose lowercase text is an intensifier
\* resp. a softener, and s = -1 iff the opinion is negated; so the clamp is
\* last and the order of the modifiers does not matter.
C21_ScoreIsClampedProduct ==
    \A x \in 1..Len(results) :
        LET kk == Cardinality({ t \in NearAdverbs(x) : Lower(doc[t].text) \in intensifiers })
            mm == Cardinality({ t \in NearAdverbs(x) : Lower(doc[t].text) \in softeners })
            s == IF has_negation(doc, pairs[x].opinion) THEN -1 ELSE 1
            prod == RMul(Rat(s * results[x].vader_breakdown, 10),
                         RMul(Pow(Rat(6, 5), kk), Pow(Rat(4, 5), mm)))
        IN  scores[x] = IF prod.n > prod.d THEN Rat(1, 1)
                        ELSE IF prod.n < -prod.d THEN Rat(-1, 1)
                        ELSE prod

\* C21 witness: a returned record of a negated opinion with a softener and,
\* after it, an intensifier in the window and compound 1.0: its score is
\* -(1.0 * 0.8 * 1.2) = -0.96
C21_Witness ==
    \E x \in 1..Len(results) :
        /\ Returned(x)
        /\ AdvsOf(x) = <<"somewhat", "very">>
        /\ NegatedOf(x)
        /\ results[x].vader_breakdown = 10
        /\ scores[x] = Rat(-24, 25)

\* C22: the confidence of every pair is min(1.0, |final score| + 0.1 * n),
\* where n counts every ADV token at distance at most 3 from the opinion
\* (distance 3 counts, distance 4 does not), the adverbs that are neither
\* intensifiers nor softeners included.
C22_ConfidenceFormula ==
    \A x \in 1..Len(results) :
        LET sum == RAdd(RAbs(scores[x]), Rat(Cardinality(NearAdverbs(x)), 10))
        IN  results[x].confidence = IF sum.n > sum.d THEN Rat(1, 1) ELSE sum

\* C22 witness: a returned record whose opinion has an adverb at distance 4,
\* not counted, and at distance 3 the adverb "quite", of neither
\* vocabulary, counted: the confidence is |score| + 0.1, below 1
C22_Witness ==
    \E x \in 1..Len(results) :
        /\ Returned(x)
        /\ pairs[x].opinion = 5
        /\ doc[1].pos = "ADV"
        /\ doc[2].text = "quite"
        /\ NearAdverbs(x) = {2}
        /\ results[x].confidence = RAdd(RAbs(scores[x]), Rat(1, 10))
        /\ results[x].confidence # Rat(1, 1)
        /\ scores[x] # Rat(0, 1)

-----------------------------------------------------------------------------
(* Properties of the negation detector (checked under SpecNeg) *)

\* (a) a direct child of the opinion of pair x has the label neg
NegChild(x) ==
    \E c \in 1..Len(doc) :
        c # pairs[x].opinion /\ doc[c].head = pairs[x].opinion /\ doc[c].dep = "neg"

\* (b) a direct child of the head of the opinion of pair x has the label neg
NegSibling(x) ==
    \E c \in 1..Len(doc) :
        /\ c # doc[pairs[x].opinion].head
        /\ doc[c].head = doc[pairs[x].opinion].head
        /\ doc[c].dep = "neg"

\* (c) the token just before the opinion of pair x is a negation word
NegBefore(x) ==
    /\ pairs[x].opinion > 1
    /\ Lower(doc[pairs[x].opinion - 1].text) \in {"not", "no", "never", "n't"}

\* C23: the opinion of a pair is taken as negated exactly when (a), (b) or
\* (c) holds, and then the sign of its score is flipped once, however many
\* of the three hold.
C23_NegationDetector ==
    \A x \in 1..Len(results) :
        LET any == NegChild(x) \/ NegSibling(x) \/ NegBefore(x)
            plain == FinalScore(results[x].vader_breakdown, AdvsOf(x), FALSE)
        IN  /\ has_negation(doc, pairs[x].opinion) <=> any
            /\ scores[x] = IF any THEN RNeg(plain) ELSE plain

\* C23 witness: in "not not good pizza", the first "not" hanging from the
\* aspect and the second from the opinion, all three conditions hold and
\* the compound 0.5 has become the score -0.5
C23_Witness ==
    \E x \in 1..Len(results) :
        /\ Returned(x)
        /\ NegChild(x) /\ NegSibling(x) /\ NegBefore(x)
        /\ results[x].vader_breakdown = 5
        /\ scores[x] = Rat(-1, 2)

-----------------------------------------------------------------------------
(* Further properties of the aggregator (checked under SpecAgg) *)

\* the position in the input of the first record of group a
FirstOf(a) == Min(Group(a))

\* C24: the groups appear in the output in the order of their first input
\* records, and a group keeps its position when a later record of higher
\* confidence replaces its winner: at every step of the loop, and in the
\* returned list, an earlier entry belongs to the group that was seen first.
C24_OrderOfFirstInsertion ==
    /\ \A x, y \in 1..Len(merged) :
         x < y => FirstOf(merged[x].key) < FirstOf(merged[y].key)
    /\ pc = "done" =>
         \A x, y \in 1..Len(final) :
             x < y => FirstOf(Lower(final[x].aspect)) < FirstOf(Lower(final[y].aspect))

\* C24 witness: "pizza" 0.4, "service", "Pizza" 0.9: the third record has
\* replaced the first one and is returned before the second
C24_Witness ==
    /\ pc = "done"
    /\ Len(results) = 3
    /\ Lower(results[1].aspect) = "pizza" /\ Lower(results[3].aspect) = "pizza"
    /\ results[2].aspect = "service"
    /\ RLess(results[1].confidence, results[3].confidence)
    /\ final = << results[3], results[2] >>

\* C25: the aggregator leaves its input list as it is, and every record it
\* returns is one of the input records, all five fields as they were (the
\* aspect text in its original casing).
C25_RecordsNotMutated ==
    [][ /\ results' = results
        /\ pc' = "done" =>
             \A y \in 1..Len(final') : \E x \in 1..Len(results) :
                 /\ final'[y].aspect = results[x].aspect
                 /\ final'[y].sentiment = results[x].sentiment
                 /\ final'[y].confidence = results[x].confidence
                 /\ final'[y].text_span = results[x].text_span
                 /\ final'[y].vader_breakdown = results[x].vader_breakdown ]_vars

\* C25 witness: the winner of the group "pizza" is returned with its aspect
\* text "Pizza", and the input list still holds both records
C25_Witness ==
    /\ pc = "done"
    /\ Len(results) = 2
    /\ results[1].aspect = "pizza" /\ results[1].sentiment = "negative"
    /\ results[2].aspect = "Pizza" /\ results[2].sentiment = "positive"
    /\ RLess(results[1].confidence, results[2].confidence)
    /\ final = << results[2] >>


\* C27: aggregating the aggregator's output returns that output, the same
\* records in the same order, and LexiconABSA._aggregate_results and
\* utils.aggregate_results return the same list on every input.
C27_IdempotentAndCopiesAgree ==
    pc = "done" =>
        /\ final = LexiconABSA_aggregate_results(results)
        /\ aggregate_results(results) = final
        /\ LexiconABSA_aggregate_results(final) = final
        /\ aggregate_results(final) = final

\* C27 witness: three records of two groups, the second group's winner
\* being its later record "Pizza"; the two returned records aggregate to
\* themselves under both copies
C27_Witness ==
    /\ pc = "done"
    /\ Len(results) = 3
    /\ results[1].aspect = "service"
    /\ results[2].aspect = "pizza"
    /\ Len(final) = 2
    /\ final[2] = results[3]
    /\ final[2].aspect = "Pizza"
    /\ aggregate_results(results) = final
    /\ aggregate_results(final) = final

-----------------------------------------------------------------------------
(* Properties of the softeners (checked under SpecSoft) *)

\* token t lies within the window of the opinion of pair x
InWindow(x, t) ==
    /\ t \in 1..Len(doc)
    /\ t - pairs[x].opinion <= 3
    /\ pairs[x].opinion - t <= 3

\* token t is adverbial material
Adverbial(t) == doc[t].pos = "ADV" \/ doc[t].dep \in {"advmod", "npadvmod"}

\* the one-word softeners near the opinion of pair x
OneWordSofteners(x) ==
    { t \in 1..Len(doc) :
        /\ InWindow(x, t)
        /\ doc[t].pos = "ADV"
        /\ Lower(doc[t].text) \in {"slightly", "somewhat", "barely", "rather"} }

\* the places near the opinion of pair x where "a bit" or "kind of" starts
TwoWordSofteners(x) ==
    { t \in 1..Len(doc) :
        /\ InWindow(x, t) /\ InWindow(x, t + 1)
        /\ << Lower(doc[t].text), Lower(doc[t + 1].text) >>
             \in { <<"a", "bit">>, <<"kind", "of">> }
        /\ Adverbial(t) \/ Adverbial(t + 1) }

\* C26: each occurrence of one of the six softeners as adverbial material
\* within the window of the opinion, the two-word "a bit" and "kind of"
\* included, multiplies the score by 0.8 (the documents of this family hold
\* no intensifier and no negation).
C26_EverySoftenerMultiplies ==
    \A x \in 1..Len(results) :
        LET m == Cardinality(OneWordSofteners(x)) + Cardinality(TwoWordSofteners(x))
        IN  scores[x] = Clamp(RMul(Rat(results[x].vader_breakdown, 10),
                                   Pow(Rat(4, 5), m)))

-----------------------------------------------------------------------------
(* Properties of what the transformer analyzer returns (checked under      *)
(* SpecTrfBoth)                                                            *)

\* C28: what analyze and analyze_batch return holds only records whose
\* confidence is strictly above 0.3 (3 tenths), in the order of non-increasing
\* confidence, and it is the empty list for an empty or whitespace-only
\* text.
C28_ReturnedAboveThresholdSorted ==
    trf # << >> /\ trf.pc \in {"returned", "batch_returned"} =>
        /\ \A x \in 1..Len(trf.returned) : trf.returned[x].confidence > 3
        /\ \A x, y \in 1..Len(trf.returned) :
             x < y => trf.returned[x].confidence >= trf.returned[y].confidence
        /\ trf.text = << >> => trf.returned = << >>

\* C28 witness: analyze_batch on the aspects "pizza" and "service", scored
\* 0.5 and 0.9, has returned the record of "service" before that of "pizza"
C28_Witness ==
    /\ trf # << >>
    /\ trf.pc = "batch_returned"
    /\ trf.aspects = << <<"pizza">>, <<"service">> >>
    /\ Len(trf.outcomes) = 2
    /\ trf.outcomes[1].score = 5
    /\ trf.outcomes[2].score = 9
    /\ Len(trf.returned) = 2
    /\ trf.returned[1].aspect = <<"service">>
    /\ trf.returned[2].aspect = <<"pizza">>

=============================================================================
